---- MODULE Spec2Model ----
(***************************************************************************)
(* Model of zbiornik.py: the tank simulation simulate_tank (a discrete     *)
(* PI controller driving a square-root-outflow tank) and the Dash callback *)
(* update_graphs, which overlays the previous run kept in the global       *)
(* previous_trace.                                                         *)
(*                                                                         *)
(* Python floats are modelled as fixed-point integers, Scale units to 1.0, *)
(* every product and quotient rounded to the nearest unit.  A Python       *)
(* number is a record [cx, re, im]: cx tells a complex from a float,       *)
(* because a negative float raised to the power 0.5 is a complex in        *)
(* Python 3 and a complex cannot be ordered (max/min raise TypeError).     *)
(***************************************************************************)
EXTENDS Integers, Sequences, FiniteSets, TLC

VARIABLES
    sim,             \* per thread: the frame of simulate_tank
    ug,              \* per thread: the frame of update_graphs
    previous_trace,  \* the module-level global of line 151
    ncalls,          \* history: update_graphs invocations begun so far
    lastDone,        \* history: outcome of the invocation that ended last
    firstResult      \* history: per argument tuple, the first value returned

vars == <<sim, ug, previous_trace, ncalls, lastDone, firstResult>>

(***************************************************************************)
(* Bounds of the model.                                                    *)
(***************************************************************************)
MaxTicks == 5   \* t_sim ranges up to (MaxTicks + 1/2) * T_p
MaxCalls == 3   \* update_graphs invocations explored in one behaviour

Threads == {"t1", "t2"}

(***************************************************************************)
(* Fixed-point reals.                                                      *)
(***************************************************************************)
Scale == 1000

Abs(x) == IF x < 0 THEN -x ELSE x
Sign(x) == IF x < 0 THEN -1 ELSE 1

\* a / b rounded to the nearest integer (b # 0)
RDiv(a, b) == Sign(a) * Sign(b) * ((2 * Abs(a) + Abs(b)) \div (2 * Abs(b)))

FMul(a, b) == RDiv(a * b, Scale)
FDiv(a, b) == RDiv(a * Scale, b)

RECURSIVE SqrtSearch(_, _, _)
SqrtSearch(n, lo, hi) ==
    IF lo >= hi THEN lo
    ELSE LET mid == (lo + hi + 1) \div 2
         IN  IF mid * mid <= n THEN SqrtSearch(n, mid, hi)
             ELSE SqrtSearch(n, lo, mid - 1)

\* floor of the square root of n >= 0
ISqrt(n) == SqrtSearch(n, 0, IF n < 46340 THEN n ELSE 46340)

\* square root of the fixed-point real x >= 0
FSqrt(x) == ISqrt(x * Scale)

(***************************************************************************)
(* Python numbers: float or complex.                                       *)
(***************************************************************************)
Flt(x) == [cx |-> FALSE, re |-> x, im |-> 0]
Cplx(x, y) == [cx |-> TRUE, re |-> x, im |-> y]

NumAdd(a, b) == [cx |-> a.cx \/ b.cx, re |-> a.re + b.re, im |-> a.im + b.im]
NumSub(a, b) == [cx |-> a.cx \/ b.cx, re |-> a.re - b.re, im |-> a.im - b.im]
\* float r times number a, and number a over float r (r # 0)
NumScale(r, a) == [cx |-> a.cx, re |-> FMul(r, a.re), im |-> FMul(r, a.im)]
NumOver(a, r) == [cx |-> a.cx, re |-> FDiv(a.re, r), im |-> FDiv(a.im, r)]

\* a ** 0.5: a float for a float a >= 0, a complex for a float a < 0
\* (Python 3 float.__pow__), the principal root for a complex a.
PowHalf(a) ==
    IF ~a.cx /\ a.re >= 0 THEN Flt(FSqrt(a.re))
    ELSE IF ~a.cx THEN Cplx(0, FSqrt(-a.re))
    ELSE LET m == ISqrt(a.re * a.re + a.im * a.im)
         IN  Cplx(FSqrt((m + a.re) \div 2), Sign(a.im) * FSqrt((m - a.re) \div 2))

\* abs() of a float (abs of a complex is never taken: see Iterate)
NumAbs(a) == Abs(a.re)

RECURSIVE NumSum(_)
\* sum(e): the entries added left to right
NumSum(s) == IF s = <<>> THEN Flt(0)
             ELSE NumAdd(NumSum(SubSeq(s, 1, Len(s) - 1)), s[Len(s)])

\* int(x): truncation toward zero of the fixed-point real x
IntTrunc(x) == Sign(x) * (Abs(x) \div Scale)

(***************************************************************************)
(* Module constants, lines 14-19.                                          *)
(***************************************************************************)
T_p == Scale \div 10
T_i == Scale \div 2
U_min == 0
U_max == 10 * Scale
Qd_max == Scale \div 20
Qd_min == 0

(***************************************************************************)
(* simulate_tank, lines 120-148.                                           *)
(***************************************************************************)
NoArgs == [A |-> 0, beta |-> 0, t_sim |-> 0, h_zad |-> 0, k_p |-> 0]

IdleFrame ==
    [pc |-> "idle", exc |-> "none", args |-> NoArgs,
     Qd |-> <<>>, h |-> <<>>, t |-> <<>>, u |-> <<>>, e |-> <<>>, Q_out |-> <<>>,
     N |-> 0, e_sum |-> 0, u_sum |-> 0, i |-> 0]

\* lines 131-132
calculate_U(k_p, e_i, e) ==
    NumAdd(NumScale(k_p, e_i), NumScale(FDiv(FMul(k_p, T_p), T_i), NumSum(e)))

\* lines 134-135
calculate_Qd(u) ==
    FMul(FDiv(Qd_max - Qd_min, U_max - U_min), u - U_min) + Qd_min

\* max(a, b) and min(a, b) of Python, on floats
PyMax(a, b) == IF b > a THEN b ELSE a
PyMin(a, b) == IF b < a THEN b ELSE a

\* a saturation that forgets the upper bound
SaturateLowerOnly(raw) == PyMax(U_min, raw)

\* line 140: the saturation of a float control value
Saturate(raw) == PyMin(U_max, PyMax(U_min, raw))

\* a run that resumes from the level the previous run ended at
InitialHeightResumed ==
    IF previous_trace.h = <<>> THEN Flt(0)
    ELSE previous_trace.h[Len(previous_trace.h)]

\* line 122: the level the tank starts at
InitialHeight == Flt(0)

\* lines 121-129: the frame when the loop is about to start
Seed(a) ==
    LET h0 == <<InitialHeight>>
    IN  [pc |-> "loop", exc |-> "none", args |-> a,
         Qd |-> <<0>>,
         h |-> h0,
         t |-> <<0>>,
         u |-> <<a.k_p>>,
         e |-> <<NumSub(Flt(a.h_zad), h0[1])>>,
         Q_out |-> <<NumScale(a.beta, PowHalf(h0[1]))>>,
         N |-> IntTrunc(FDiv(a.t_sim, T_p)) + 1,
         e_sum |-> 0, u_sum |-> 0, i |-> 0]

\* the outflow computed from h[_ - 1] (h[-1] when _ = 0, its only entry)
OutflowIndexLag(k) == IF k = 0 THEN 1 ELSE k

\* The index the outflow appended in iteration k is computed from: h[_].
OutflowIndex(k) == k + 1

\* the height update fed with the flow just commanded, Qd[_ + 1]
FlowIndexCurrent(k) == k + 2

\* The index of the commanded flow that enters the height update: Qd[_].
FlowIndex(k) == k + 1

\* e_sum fed with the previous error, abs(e[_])
ErrTermLag(e, k) == NumAbs(e[k + 1])

\* line 142: what iteration k adds to e_sum
ErrTerm(e, k) == NumAbs(e[k + 2])

\* lines 138-146: one iteration of the loop, _ = f.i.  Python's index j is
\* the sequence index j + 1; x[-1] is x[Len(x)].
Iterate(f) ==
    LET k == f.i
        a == f.args
        t1 == Append(f.t, f.t[Len(f.t)] + T_p)
        e1 == Append(f.e, NumSub(Flt(a.h_zad), f.h[k + 1]))
        raw == calculate_U(a.k_p, e1[k + 2], e1)
        f140 == [f EXCEPT !.t = t1, !.e = e1]
    IN  IF raw.cx
        THEN \* max(U_min, <complex>) raises TypeError
             [f140 EXCEPT !.pc = "raised", !.exc = "TypeError"]
        ELSE
        LET U == Saturate(raw.re)
            u1 == Append(f.u, U)
            Qd1 == Append(f.Qd, calculate_Qd(U))
            Qo1 == Append(f.Q_out, NumScale(a.beta, PowHalf(f.h[OutflowIndex(k)])))
            f145 == [f140 EXCEPT !.u_sum = f.u_sum + Abs(U),
                                 !.e_sum = f.e_sum + ErrTerm(e1, k),
                                 !.u = u1, !.Qd = Qd1, !.Q_out = Qo1]
            hl == f.h[Len(f.h)]
            net == NumScale(T_p, NumSub(Flt(Qd1[FlowIndex(k)]),
                                        NumScale(a.beta, PowHalf(hl))))
        IN  IF a.A = 0
            THEN \* ... * T_p / A raises ZeroDivisionError
                 [f145 EXCEPT !.pc = "raised", !.exc = "ZeroDivisionError"]
            ELSE [f145 EXCEPT !.h = Append(f.h, NumAdd(NumOver(net, a.A), hl)),
                              !.i = k + 1]

\* a loop that runs one iteration more, range(N + 1)
LoopRunsOneMore(f) == f.i < f.N + 1

\* line 137: range(N) has iterations left
LoopRuns(f) == f.i < f.N

\* line 148: the returned tuple
Result(f) ==
    [t |-> f.t, h |-> f.h, Qd |-> f.Qd, Q_out |-> f.Q_out, u |-> f.u,
     e_sum |-> f.e_sum, u_sum |-> f.u_sum]

SimCall(p, a) ==
    /\ sim[p].pc \in {"idle", "returned", "raised"}
    /\ sim' = [sim EXCEPT ![p] = Seed(a)]

SimStep(p) ==
    /\ sim[p].pc = "loop"
    /\ LoopRuns(sim[p])
    /\ sim' = [sim EXCEPT ![p] = Iterate(sim[p])]

SimReturn(p) ==
    /\ sim[p].pc = "loop"
    /\ ~LoopRuns(sim[p])
    /\ sim' = [sim EXCEPT ![p].pc = "returned"]

(***************************************************************************)
(* Arguments of the direct calls explored: the defaults of lines 7-11,     *)
(* values that saturate the controller either way, and the degenerate      *)
(* values.  t_sim lies half a sampling period off the multiples of T_p.    *)
(***************************************************************************)
AVals == {-Scale, 0, Scale \div 10, (3 * Scale) \div 2}
BetaVals == {0, (35 * Scale) \div 1000, Scale}
TSimVals == {(2 * k + 1) * (T_p \div 2) : k \in -3 .. MaxTicks} \cup {0}
HZadVals == {-Scale, 0, (5 * Scale) \div 4}
KpVals == {-Scale, 0, Scale \div 50, 2 * Scale, 10 * Scale, 11 * Scale}

ArgSet == [A : AVals, beta : BetaVals, t_sim : TSimVals, h_zad : HZadVals, k_p : KpVals]

(***************************************************************************)
(* update_graphs, lines 164-214, and the global previous_trace, line 151.  *)
(* Every evaluation of the name previous_trace is a step of its own: the   *)
(* callbacks run on the threads of the development server, and a thread    *)
(* may be preempted between any two of them.                               *)
(***************************************************************************)
NoTrace == [time |-> <<>>, h |-> <<>>, Qd |-> <<>>, Q_out |-> <<>>, u |-> <<>>]

NoRun == [t |-> <<>>, h |-> <<>>, Qd |-> <<>>, Q_out |-> <<>>, u |-> <<>>,
          e_sum |-> 0, u_sum |-> 0]

NoFigs == [water |-> <<>>, flow |-> <<>>, voltage |-> <<>>]

IdleUG == [pc |-> "idle", k |-> 0, prev |-> [outcome |-> "none", trace |-> NoTrace],
           run |-> NoRun, seen |-> <<>>, x |-> <<>>, figs |-> NoFigs]

\* line 212: the dictionary built from the run
TraceOf(r) == [time |-> r.t, h |-> r.h, Qd |-> r.Qd, Q_out |-> r.Q_out, u |-> r.u]

\* float(s) of the dropdown strings the callbacks are invoked with
FloatOfString(s) ==
    CASE s = "0.035" -> (35 * Scale) \div 1000
      [] s = "0.5" -> Scale \div 2
      [] s = "1.0" -> Scale
      [] s = "1.25" -> (5 * Scale) \div 4
      [] s = "2" -> 2 * Scale
      [] s = "10" -> 10 * Scale

\* lines 166-170: sliders deliver numbers, dropdowns deliver strings
ConvertInputs(in) ==
    [A |-> in.A, beta |-> FloatOfString(in.beta), t_sim |-> in.t_sim,
     h_zad |-> FloatOfString(in.h_zad), k_p |-> FloatOfString(in.k_p)]

\* The inputs the callbacks are invoked with: one whose run raises
\* TypeError in its fifth iteration, and two that return.
UGInputs ==
    { [A |-> Scale \div 10, beta |-> "1.0", t_sim |-> 9 * (T_p \div 2),
       h_zad |-> "1.25", k_p |-> "10"],
      [A |-> (3 * Scale) \div 2, beta |-> "0.035", t_sim |-> 3 * (T_p \div 2),
       h_zad |-> "1.25", k_p |-> "2"],
      [A |-> (3 * Scale) \div 2, beta |-> "0.035", t_sim |-> T_p \div 2,
       h_zad |-> "0.5", k_p |-> "2"] }

\* the statement reached after an `if previous_trace['time']:` test
AfterTest(pc, drawn) ==
    CASE pc = "179" -> IF drawn THEN "180x" ELSE "194"
      [] pc = "194" -> IF drawn THEN "195x" ELSE "207"
      [] pc = "207" -> IF drawn THEN "208x" ELSE "212"

\* lines 164-172: the callback starts and calls simulate_tank
UGCall(p, in) ==
    /\ ug[p].pc \in {"idle", "returned", "raised"}
    /\ ncalls < MaxCalls
    /\ ncalls' = ncalls + 1
    /\ ug' = [ug EXCEPT ![p] = [IdleUG EXCEPT !.pc = "sim", !.k = ncalls + 1,
                                              !.prev = lastDone]]
    /\ SimCall(p, ConvertInputs(in))
    /\ UNCHANGED <<previous_trace, lastDone, firstResult>>

UGSimStep(p) ==
    /\ ug[p].pc = "sim"
    /\ SimStep(p)
    /\ UNCHANGED <<ug, previous_trace, ncalls, lastDone, firstResult>>

\* lines 172-178: simulate_tank returns and the first figure is built
UGSimReturn(p) ==
    /\ ug[p].pc = "sim"
    /\ SimReturn(p)
    /\ ug' = [ug EXCEPT ![p].pc = "179", ![p].run = Result(sim[p])]
    /\ firstResult' =
          IF sim[p].args \in DOMAIN firstResult THEN firstResult
          ELSE (sim[p].args :> [k |-> ug[p].k, value |-> Result(sim[p])]) @@ firstResult
    /\ UNCHANGED <<previous_trace, ncalls, lastDone>>

\* line 172: an exception of simulate_tank leaves update_graphs
UGSimRaise(p) ==
    /\ ug[p].pc = "sim"
    /\ sim[p].pc = "raised"
    /\ ug' = [ug EXCEPT ![p].pc = "raised"]
    /\ lastDone' = [outcome |-> "raised", trace |-> NoTrace]
    /\ UNCHANGED <<sim, previous_trace, ncalls, firstResult>>

\* lines 179, 194, 207: if previous_trace['time']:
UGTest(p) ==
    /\ ug[p].pc \in {"179", "194", "207"}
    /\ ug' = [ug EXCEPT ![p].seen = Append(@, previous_trace),
                        ![p].pc = AfterTest(@, previous_trace.time # <<>>)]
    /\ UNCHANGED <<sim, previous_trace, ncalls, lastDone, firstResult>>

\* lines 180, 195, 198, 208: x=previous_trace['time']
UGReadX(p) ==
    /\ ug[p].pc \in {"180x", "195x", "198x", "208x"}
    /\ ug' = [ug EXCEPT ![p].seen = Append(@, previous_trace),
                        ![p].x = previous_trace.time,
                        ![p].pc = CASE @ = "180x" -> "180y" [] @ = "195x" -> "195y"
                                    [] @ = "198x" -> "198y" [] @ = "208x" -> "208y"]
    /\ UNCHANGED <<sim, previous_trace, ncalls, lastDone, firstResult>>

\* lines 180, 195, 198, 208: y=previous_trace[...], and add_scatter
UGReadY(p) ==
    /\ ug[p].pc \in {"180y", "195y", "198y", "208y"}
    /\ LET pc == ug[p].pc
           y == CASE pc = "180y" -> previous_trace.h
                  [] pc = "195y" -> previous_trace.Qd
                  [] pc = "198y" -> previous_trace.Q_out
                  [] pc = "208y" -> previous_trace.u
           sc == [x |-> ug[p].x, y |-> y]
       IN  ug' = [ug EXCEPT
                    ![p].seen = Append(@, previous_trace),
                    ![p].figs.water = IF pc = "180y" THEN Append(@, sc) ELSE @,
                    ![p].figs.flow = IF pc \in {"195y", "198y"} THEN Append(@, sc) ELSE @,
                    ![p].figs.voltage = IF pc = "208y" THEN Append(@, sc) ELSE @,
                    ![p].pc = CASE pc = "180y" -> "194" [] pc = "195y" -> "198x"
                                [] pc = "198y" -> "207" [] pc = "208y" -> "212"]
    /\ UNCHANGED <<sim, previous_trace, ncalls, lastDone, firstResult>>

\* lines 212-214: the run replaces the global, and the figures are returned
UGStore(p) ==
    /\ ug[p].pc = "212"
    /\ previous_trace' = TraceOf(ug[p].run)
    /\ ug' = [ug EXCEPT ![p].pc = "returned"]
    /\ lastDone' = [outcome |-> "returned", trace |-> TraceOf(ug[p].run)]
    /\ UNCHANGED <<sim, ncalls, firstResult>>

UGNext(p) ==
    \/ \E in \in UGInputs : UGCall(p, in)
    \/ UGSimStep(p)
    \/ UGSimReturn(p)
    \/ UGSimRaise(p)
    \/ UGTest(p)
    \/ UGReadX(p)
    \/ UGReadY(p)
    \/ UGStore(p)

Init ==
    /\ sim = [p \in Threads |-> IdleFrame]
    /\ ug = [p \in Threads |-> IdleUG]
    /\ previous_trace = NoTrace
    /\ ncalls = 0
    /\ lastDone = [outcome |-> "none", trace |-> NoTrace]
    /\ firstResult = <<>>

\* simulate_tank called directly, once, with any of the arguments
Call(a) ==
    /\ sim["t1"].pc = "idle"
    /\ SimCall("t1", a)
    /\ UNCHANGED <<ug, previous_trace, ncalls, lastDone, firstResult>>

Step ==
    /\ SimStep("t1")
    /\ UNCHANGED <<ug, previous_trace, ncalls, lastDone, firstResult>>

Return ==
    /\ SimReturn("t1")
    /\ UNCHANGED <<ug, previous_trace, ncalls, lastDone, firstResult>>

Next ==
    \/ \E a \in ArgSet : Call(a)
    \/ Step
    \/ Return

\* simulate_tank on its own
Spec == Init /\ [][Next]_vars

\* the callbacks on concurrent threads
NextUG == \E p \in Threads : UGNext(p)

SpecUG == Init /\ [][NextUG]_vars

\* the callbacks one after the other: none starts while another is running
Resting(p) == ug[p].pc \in {"idle", "returned", "raised"}

SeqCall(p, in) ==
    /\ \A q \in Threads \ {p} : Resting(q)
    /\ UGCall(p, in)

NextSeq ==
    \E p \in Threads :
        \/ \E in \in UGInputs : SeqCall(p, in)
        \/ UGSimStep(p)
        \/ UGSimReturn(p)
        \/ UGSimRaise(p)
        \/ UGTest(p)
        \/ UGReadX(p)
        \/ UGReadY(p)
        \/ UGStore(p)

SpecSeq == Init /\ [][NextSeq]_vars

(***************************************************************************)
(* Properties of simulate_tank.                                            *)
(***************************************************************************)
Called == {p \in Threads : sim[p].pc # "idle"}

\* the preconditions the specification states for the parameters
ValidArgs(a) == a.A > 0 /\ a.beta >= 0 /\ a.t_sim > 0 /\ a.k_p > 0
Degenerate(a) == a.A <= 0 \/ a.t_sim <= 0 \/ a.k_p <= 0

SeqLens(f) == {Len(f.t), Len(f.h), Len(f.u), Len(f.Qd), Len(f.Q_out), Len(f.e)}

\* C1 as stated: a completed run with valid parameters (t_sim > 0) has six sequences of one
\* length, floor(t_sim / T_p) + 3.
C1_LengthPlus3 ==
    \A p \in Called :
        (sim[p].pc = "returned" /\ ValidArgs(sim[p].args))
            => SeqLens(sim[p]) = {(sim[p].args.t_sim \div T_p) + 3}

\* C1 amended: a completed run with t_sim > 0 has six sequences of one
\* length, N + 1 = floor(t_sim / T_p) + 2: the seed and one entry per iteration.
C1_LengthPlus2 ==
    \A p \in Called :
        (sim[p].pc = "returned" /\ sim[p].args.t_sim > 0)
            => SeqLens(sim[p]) = {(sim[p].args.t_sim \div T_p) + 2}

C1_Witness ==
    \E p \in Called :
        /\ sim[p].pc = "returned"
        /\ sim[p].args.t_sim > 3 * T_p
        /\ Len(sim[p].t) = 5

\* C2 as stated: with crossSection <= 0, simulationDuration <= 0 or
\* controllerGain <= 0 the call performs no loop step and returns nothing.
C2_RejectsDegenerate ==
    \A p \in Called :
        Degenerate(sim[p].args)
            => /\ sim[p].pc # "returned"
               /\ sim[p].i = 0
               /\ Len(sim[p].t) = 1

\* C3 as stated: with valid parameters every entry of controlSignal, the
\* seed included, lies in [U_min, U_max].
C3_AllEntriesBounded ==
    \A p \in Called :
        ValidArgs(sim[p].args)
            => \A j \in 1 .. Len(sim[p].u) :
                   U_min <= sim[p].u[j] /\ sim[p].u[j] <= U_max

\* C3 amended: with valid parameters the seed entry is controllerGain
\* itself, and every computed entry lies in [U_min, U_max].
C3_ComputedEntriesBounded ==
    \A p \in Called :
        ValidArgs(sim[p].args)
            => /\ sim[p].u[1] = sim[p].args.k_p
               /\ \A j \in 2 .. Len(sim[p].u) :
                      U_min <= sim[p].u[j] /\ sim[p].u[j] <= U_max

C3_Witness ==
    \E p \in Called :
        /\ ValidArgs(sim[p].args)
        /\ sim[p].args.k_p > U_max
        /\ Len(sim[p].u) >= 3
        /\ sim[p].u[2] = U_max

\* C4 as stated: with valid parameters no step fails and none takes the
\* square root of a negative height (iteration _ roots h[_]).
C4_LoopCannotFail ==
    \A p \in Called :
        ValidArgs(sim[p].args)
            => /\ sim[p].pc # "raised"
               /\ \A j \in 1 .. sim[p].i : ~sim[p].h[j].cx /\ sim[p].h[j].re >= 0

RECURSIVE SumAbsNum(_, _, _)
SumAbsNum(s, lo, hi) ==
    IF hi < lo THEN 0 ELSE SumAbsNum(s, lo, hi - 1) + Abs(s[hi].re)

RECURSIVE SumAbsInt(_, _, _)
SumAbsInt(s, lo, hi) ==
    IF hi < lo THEN 0 ELSE SumAbsInt(s, lo, hi - 1) + Abs(s[hi])

\* C5: after k completed iterations e_sum is the sum of |e[1..k]| and u_sum
\* the sum of |u[1..k]| (Python indices), the seed entries left out.
C5_CumulativeSums ==
    \A p \in Called :
        sim[p].pc \in {"loop", "returned"}
            => /\ sim[p].e_sum = SumAbsNum(sim[p].e, 2, sim[p].i + 1)
               /\ sim[p].u_sum = SumAbsInt(sim[p].u, 2, sim[p].i + 1)

C5_Witness ==
    \E p \in Called :
        /\ sim[p].pc = "returned"
        /\ sim[p].i >= 3
        /\ sim[p].e[1].re # 0
        /\ sim[p].u[1] # 0
        /\ Abs(sim[p].e[sim[p].i + 1].re) # Abs(sim[p].e[1].re)
        /\ sim[p].u_sum > 0

\* C7 as stated: the outflow recorded at an index is computed from the
\* height at the same index (checked on runs with valid parameters).
C7_SameIndex ==
    \A p \in Called :
        \A j \in 1 .. Len(sim[p].Q_out) :
            (j <= Len(sim[p].h) /\ ValidArgs(sim[p].args))
                => sim[p].Q_out[j] = NumScale(sim[p].args.beta, PowHalf(sim[p].h[j]))

\* C7 amended: the seed outflow is computed from height[0], and the outflow
\* recorded at index j >= 1 is computed from height[j-1].
C7_LaggedIndex ==
    \A p \in Called :
        /\ sim[p].Q_out[1] = NumScale(sim[p].args.beta, PowHalf(sim[p].h[1]))
        /\ \A j \in 2 .. Len(sim[p].Q_out) :
               sim[p].Q_out[j] = NumScale(sim[p].args.beta, PowHalf(sim[p].h[j - 1]))

C7_Witness ==
    \E p \in Called :
        /\ Len(sim[p].Q_out) >= 5
        /\ sim[p].Q_out[4].re > 0
        /\ sim[p].Q_out[5] # sim[p].Q_out[4]
        /\ sim[p].h[4] # sim[p].h[3]

\* C8: height[0] = 0, commandedFlow[0] = 0, and each later height is the
\* Euler step from the previous height and the previous commanded flow.
C8_EulerStep ==
    \A p \in Called :
        /\ sim[p].h[1] = Flt(0)
        /\ sim[p].Qd[1] = 0
        /\ \A j \in 2 .. Len(sim[p].h) :
               sim[p].h[j] =
                   NumAdd(NumOver(NumScale(T_p,
                                           NumSub(Flt(sim[p].Qd[j - 1]),
                                                  NumScale(sim[p].args.beta,
                                                           PowHalf(sim[p].h[j - 1])))),
                                  sim[p].args.A),
                          sim[p].h[j - 1])

C8_Witness ==
    \E p \in Called :
        /\ Len(sim[p].h) >= 4
        /\ sim[p].Qd[2] > 0
        /\ sim[p].Qd[3] # sim[p].Qd[2]
        /\ sim[p].h[2].re = 0
        /\ sim[p].h[3].re > 0
        /\ sim[p].h[4].re > sim[p].h[3].re

(***************************************************************************)
(* Properties of update_graphs and previous_trace.                         *)
(***************************************************************************)
\* C6: a call of simulate_tank that returns, returns what the first call
\* with the same arguments returned, whatever ran before it or beside it.
C6_PureFunction ==
    \A p \in Threads :
        sim[p].pc = "returned"
            => /\ sim[p].args \in DOMAIN firstResult
               /\ Result(sim[p]) = firstResult[sim[p].args].value

\* a second call with the arguments of an earlier one returns after the
\* global was written, while the other thread is inside another simulation
C6_Witness ==
    \E p \in Threads : \E q \in Threads \ {p} :
        /\ sim[p].pc = "returned"
        /\ ug[p].pc = "179"
        /\ firstResult[sim[p].args].k # ug[p].k
        /\ previous_trace # NoTrace
        /\ sim[q].pc = "loop"
        /\ sim[q].i >= 1
        /\ sim[q].args # sim[p].args

\* the scatter traces an invocation draws when it overlays the trace tr
OverlayOf(tr) ==
    [water |-> <<[x |-> tr.time, y |-> tr.h]>>,
     flow |-> <<[x |-> tr.time, y |-> tr.Qd], [x |-> tr.time, y |-> tr.Q_out]>>,
     voltage |-> <<[x |-> tr.time, y |-> tr.u]>>]

\* C9 as stated, for invocations one after the other: the first draws no
\* overlay, the k-th overlays the sequences of the (k-1)-th, and when the
\* k-th has returned the global holds the k-th run.
C9_OverlaysPreviousRun ==
    \A p \in Threads :
        ug[p].pc = "returned"
            => /\ ug[p].k = 1 => ug[p].figs = NoFigs
               /\ ug[p].k > 1 => /\ ug[p].prev.outcome = "returned"
                                 /\ ug[p].figs = OverlayOf(ug[p].prev.trace)
               /\ ug[p].k = ncalls => previous_trace = TraceOf(ug[p].run)

\* C10 as stated: all reads of previous_trace within one invocation
\* observe the same value.
C10_ReadsAgree ==
    \A p \in Threads :
        \A i \in DOMAIN ug[p].seen : \A j \in DOMAIN ug[p].seen :
            ug[p].seen[i] = ug[p].seen[j]

====
